---- MODULE Spec2Model ----
(***************************************************************************)
(* Model of the task synchronisation endpoints of the backend              *)
(* (backend/app/api/sync.py) together with the request-scoped SQLAlchemy   *)
(* session they run in (backend/app/db/database.py) and the tasks table    *)
(* (backend/app/models/task.py).                                           *)
(*                                                                         *)
(* The committed content of the tasks table is the variable tasks.  Each   *)
(* request owns one AsyncSession: the objects it has loaded (identity map),*)
(* the objects it has added (pending) and the transaction it has open.     *)
(* The session is created with autoflush=False, so nothing a handler does  *)
(* reaches the database before the flush that db.commit() performs; the    *)
(* database is PostgreSQL at its default isolation level (READ COMMITTED), *)
(* so every SELECT reads the rows committed at that moment.                *)
(***************************************************************************)
EXTENDS Integers, Sequences, FiniteSets, TLC

\* ------------------------------------------------------------------ bounds
MaxVersion == 1     \* client-supplied versions range over 0..MaxVersion
MaxClock == 1       \* the clock takes the values 0..MaxClock
MaxBatch == 2       \* a push carries at most MaxBatch records
MaxLoad == 4        \* records submitted in one behaviour of Spec (a request
                    \* without records counts as one)
MaxOverlapLoad == 3 \* the same for SpecConcurrent
MaxRaceLoad == 5    \* the same for SpecRace
MaxRetryLoad == 3   \* the same for SpecRetry, retries not counted

\* --------------------------------------------------------- value domains
Users == {"P", "Q"}                  \* users.id of the authenticated principals
Ids == {"A", "B"}                    \* task ids (UUIDs chosen by the clients)
Payloads == {[title |-> "x", is_deleted |-> FALSE],
             [title |-> "y", is_deleted |-> TRUE]}   \* payloads the clients send
Reqs == {1, 2}                       \* requests that may be in flight together
NoUser == "-"
NoTime == -1                         \* None where a datetime is optional
Times == 0..MaxClock

\* class TaskSync: the wire form of a record.  title stands for the payload
\* columns title, notes, due_date, priority and completed_at, which the
\* handlers always copy together.
TaskSync ==
    {[id |-> id, title |-> p.title, is_deleted |-> p.is_deleted, version |-> v] :
        id \in Ids, p \in Payloads, v \in 0..MaxVersion}

RECURSIVE SeqsUpTo(_, _)
SeqsUpTo(S, n) ==
    IF n = 0 THEN {<<>>}
    ELSE LET shorter == SeqsUpTo(S, n - 1)
         IN  shorter \cup {Append(s, x) : s \in {t \in shorter : Len(t) = n - 1}, x \in S}

\* class SyncPushRequest: data.tasks, a list of TaskSync.
SyncPushRequest == SeqsUpTo(TaskSync, MaxBatch)

VARIABLES
    tasks,          \* the committed rows of table tasks, keyed by Task.id
    now,            \* the clock (datetime.utcnow() and the database's now())
    started,        \* load accepted so far
    pc,             \* where each request is
    current_user,   \* the principal of each request
    data,           \* push: the request body's tasks
    i,              \* push: index of the next record of data
    conflicts,      \* push: the conflicts list
    identity_map,   \* session: loaded objects by id, each [orig, cur]
    pending,        \* session: objects passed to db.add, in order
    tx_start,       \* time the session's transaction began, or NoTime
    since,          \* pull: the since parameter
    result,         \* pull: the rows the query returned; status: the count
    resp            \* the response of a finished request

vars == <<tasks, now, started, pc, current_user, data, i, conflicts,
          identity_map, pending, tx_start, since, result, resp>>

reqvars == <<current_user, data, i, conflicts, identity_map, pending,
             tx_start, since, result, resp>>

NoRows == [id \in {} |-> 0]
NoResp == [kind |-> "none"]

Init ==
    /\ tasks = NoRows
    /\ now = 0
    /\ started = 0
    /\ pc = [r \in Reqs |-> "idle"]
    /\ current_user = [r \in Reqs |-> NoUser]
    /\ data = [r \in Reqs |-> <<>>]
    /\ i = [r \in Reqs |-> 1]
    /\ conflicts = [r \in Reqs |-> <<>>]
    /\ identity_map = [r \in Reqs |-> NoRows]
    /\ pending = [r \in Reqs |-> <<>>]
    /\ tx_start = [r \in Reqs |-> NoTime]
    /\ since = [r \in Reqs |-> NoTime]
    /\ result = [r \in Reqs |-> <<>>]
    /\ resp = [r \in Reqs |-> NoResp]

\* The clock advances between any two steps.
Tick ==
    /\ now < MaxClock
    /\ now' = now + 1
    /\ UNCHANGED <<tasks, started, pc>>
    /\ UNCHANGED reqvars

\* Request r is over (or has not begun): its session is closed.
Free(r) == pc[r] \in {"idle", "done", "failed"}

\* What a request of that many records adds to the load explored.
Load(size) == IF size = 0 THEN 1 ELSE size

\* A request is accepted.  Requests are anonymous, so the lowest free slot
\* takes it.
CanStart(r) ==
    /\ Free(r)
    /\ \A q \in Reqs : q < r => ~Free(q)

\* The load explored so far leaves room for a request of that size.
Room(budget, size) == started + Load(size) <= budget

\* No request is in flight.
Quiet == \A q \in Reqs : Free(q)

\* The request-scoped state of a slot before its handler runs (get_db opens
\* a new session for every request).
Fresh(r, u, batch, s) ==
    /\ current_user' = [current_user EXCEPT ![r] = u]
    /\ data' = [data EXCEPT ![r] = batch]
    /\ since' = [since EXCEPT ![r] = s]
    /\ i' = [i EXCEPT ![r] = 1]
    /\ conflicts' = [conflicts EXCEPT ![r] = <<>>]
    /\ identity_map' = [identity_map EXCEPT ![r] = NoRows]
    /\ pending' = [pending EXCEPT ![r] = <<>>]
    /\ tx_start' = [tx_start EXCEPT ![r] = NoTime]
    /\ result' = [result EXCEPT ![r] = <<>>]
    /\ resp' = [resp EXCEPT ![r] = NoResp]

\* ------------------------------------------------------------ push_changes
\* Variant of the lookup: the row looked up by id alone.
MatchesAnyOwner(row, id, user) ==
    row.id = id

\* The WHERE clause and_(Task.id == id, Task.user_id == user) on a row.
Matches(row, id, user) ==
    row.id = id /\ row.user_id = user

\* The SELECT of the loop finds a row: it is evaluated by the database on
\* the rows committed at that moment.
Found(r, id) ==
    id \in DOMAIN tasks /\ Matches(tasks[id], id, current_user[r])

\* result.scalar_one_or_none() when a row is found: the session's object for
\* it.  An object already in the identity map is returned as it is in memory
\* (its attributes are not refreshed from the row).
ExistingTask(r, id) ==
    IF id \in DOMAIN identity_map[r] THEN identity_map[r][id].cur ELSE tasks[id]

\* The snapshot that object was loaded with (what the flush compares against).
LoadedTask(r, id) ==
    IF id \in DOMAIN identity_map[r] THEN identity_map[r][id].orig ELSE tasks[id]

\* Variants of the version check: an equal version rejected too, and a
\* version one behind let through.
IsConflictOrEqual(existing_task, task_data) ==
    existing_task.version >= task_data.version

IsConflictByTwo(existing_task, task_data) ==
    existing_task.version > task_data.version + 1

\* if existing_task.version > task_data.version
IsConflict(existing_task, task_data) ==
    existing_task.version > task_data.version

\* Variant of the update: the version bumped from the server's own value.
UpdateTaskBumpOwn(existing_task, task_data, utcnow) ==
    [existing_task EXCEPT !.title = task_data.title,
                          !.is_deleted = task_data.is_deleted,
                          !.version = existing_task.version + 1,
                          !.modified_at = utcnow]

\* "Update existing task": the attribute assignments on the loaded object.
UpdateTask(existing_task, task_data, utcnow) ==
    [existing_task EXCEPT !.title = task_data.title,
                          !.is_deleted = task_data.is_deleted,
                          !.version = task_data.version + 1,
                          !.modified_at = utcnow]

\* "Create new task": Task(id=..., user_id=current_user.id, ...).  modified_at
\* is not given: the column's server_default fills it in at INSERT.
NewTask(task_data, user) ==
    [id |-> task_data.id,
     user_id |-> user,
     title |-> task_data.title,
     is_deleted |-> task_data.is_deleted,
     version |-> task_data.version]

\* f with key k set to v (k may be new).
Put(f, k, v) ==
    [x \in DOMAIN f \cup {k} |-> IF x = k THEN v ELSE f[x]]

\* POST /push arrives for principal u with body tasks = batch.
StartPush(r, u, batch) ==
    /\ CanStart(r)
    /\ started' = started + Load(Len(batch))
    /\ pc' = [pc EXCEPT ![r] = "push_loop"]
    /\ Fresh(r, u, batch, NoTime)
    /\ UNCHANGED <<tasks, now>>

\* One iteration of "for task_data in data.tasks".
PushRecord(r) ==
    /\ pc[r] = "push_loop"
    /\ i[r] <= Len(data[r])
    /\ LET task_data == data[r][i[r]]
           id == task_data.id
       IN  IF Found(r, id)
           THEN LET existing_task == ExistingTask(r, id)
                    orig == LoadedTask(r, id)
                IN  IF IsConflict(existing_task, task_data)
                    THEN /\ conflicts' = [conflicts EXCEPT ![r] = Append(@, id)]
                         /\ identity_map' = [identity_map EXCEPT ![r] =
                                Put(@, id, [orig |-> orig, cur |-> existing_task])]
                         /\ UNCHANGED pending
                    ELSE /\ identity_map' = [identity_map EXCEPT ![r] =
                                Put(@, id, [orig |-> orig,
                                            cur |-> UpdateTask(existing_task, task_data, now)])]
                         /\ UNCHANGED <<conflicts, pending>>
           ELSE /\ pending' = [pending EXCEPT ![r] =
                                  Append(@, NewTask(task_data, current_user[r]))]
                /\ UNCHANGED <<conflicts, identity_map>>
    /\ tx_start' = [tx_start EXCEPT ![r] = IF @ = NoTime THEN now ELSE @]
    /\ i' = [i EXCEPT ![r] = @ + 1]
    /\ UNCHANGED <<tasks, now, started, pc, current_user, data, since, result, resp>>

\* ------------------------------------------------- the flush of db.commit()
\* Ids of the objects the session has to INSERT.
PendingIds(r) == {pending[r][k].id : k \in 1..Len(pending[r])}

\* The INSERTs violate the primary key of tasks (Task.id alone): a row with
\* that id is committed already, whoever owns it, or two pending objects
\* carry the same id.
IntegrityError(r) ==
    \E k \in 1..Len(pending[r]) :
        \/ pending[r][k].id \in DOMAIN tasks
        \/ \E j \in 1..Len(pending[r]) : j # k /\ pending[r][j].id = pending[r][k].id

\* The row an INSERT of a pending object leaves: modified_at takes its
\* server_default now(), the start time of the inserting transaction.
InsertRow(new_task, db_now) ==
    [id |-> new_task.id,
     user_id |-> new_task.user_id,
     title |-> new_task.title,
     is_deleted |-> new_task.is_deleted,
     version |-> new_task.version,
     modified_at |-> db_now]

\* The row an UPDATE ... WHERE tasks.id = :id leaves: the unit of work sets
\* the columns whose value differs from the loaded one.  modified_at is
\* always among them (the handler assigns a naive datetime, never equal to
\* the loaded timezone-aware one).
UpdateRow(row, o) ==
    [row EXCEPT !.title = IF o.cur.title # o.orig.title THEN o.cur.title ELSE @,
                !.is_deleted = IF o.cur.is_deleted # o.orig.is_deleted
                               THEN o.cur.is_deleted ELSE @,
                !.version = IF o.cur.version # o.orig.version THEN o.cur.version ELSE @,
                !.modified_at = o.cur.modified_at]

\* Ids of the loaded objects the handler has modified.
DirtyIds(r) ==
    {id \in DOMAIN identity_map[r] : identity_map[r][id].cur # identity_map[r][id].orig}

\* Variant of the flush: a row whose is_deleted flag is set is deleted.
FlushedHardDelete(r) ==
    LET flushed == [id \in DOMAIN tasks \cup PendingIds(r) |->
                      IF id \in PendingIds(r)
                      THEN InsertRow(CHOOSE t \in {pending[r][k] : k \in 1..Len(pending[r])} :
                                        t.id = id,
                                     tx_start[r])
                      ELSE IF id \in DirtyIds(r)
                      THEN UpdateRow(tasks[id], identity_map[r][id])
                      ELSE tasks[id]]
    IN  [id \in {x \in DOMAIN flushed :
                    ~(x \in DirtyIds(r) \cup PendingIds(r) /\ flushed[x].is_deleted)}
            |-> flushed[id]]

\* The table after request r's flush and COMMIT.
Flushed(r) ==
    [id \in DOMAIN tasks \cup PendingIds(r) |->
        IF id \in PendingIds(r)
        THEN InsertRow(CHOOSE t \in {pending[r][k] : k \in 1..Len(pending[r])} : t.id = id,
                       tx_start[r])
        ELSE IF id \in DirtyIds(r)
        THEN UpdateRow(tasks[id], identity_map[r][id])
        ELSE tasks[id]]

\* The request ends with an unhandled exception (an error response).
Raised(exception) == [kind |-> "error", error |-> exception]

\* Variant of the commit: the UPDATEs flushed before the failing INSERT stay
\* (no rollback).
PushCommitNoRollback(r) ==
    /\ pc[r] = "push_loop"
    /\ i[r] > Len(data[r])
    /\ IF IntegrityError(r)
       THEN /\ pc' = [pc EXCEPT ![r] = "failed"]
            /\ resp' = [resp EXCEPT ![r] = Raised("IntegrityError")]
            /\ tasks' = [id \in DOMAIN tasks |->
                            IF id \in DirtyIds(r)
                            THEN UpdateRow(tasks[id], identity_map[r][id])
                            ELSE tasks[id]]
       ELSE /\ pc' = [pc EXCEPT ![r] = "push_return"]
            /\ tasks' = Flushed(r)
            /\ UNCHANGED resp
    /\ UNCHANGED <<now, started, current_user, data, i, conflicts, identity_map,
                   pending, tx_start, since, result>>

\* await db.commit() at the end of the loop.  An IntegrityError propagates
\* to get_db, which rolls the transaction back.
PushCommit(r) ==
    /\ pc[r] = "push_loop"
    /\ i[r] > Len(data[r])
    /\ IF IntegrityError(r)
       THEN /\ pc' = [pc EXCEPT ![r] = "failed"]
            /\ resp' = [resp EXCEPT ![r] = Raised("IntegrityError")]
            /\ UNCHANGED tasks
       ELSE /\ pc' = [pc EXCEPT ![r] = "push_return"]
            /\ tasks' = Flushed(r)
            /\ UNCHANGED resp
    /\ UNCHANGED <<now, started, current_user, data, i, conflicts, identity_map,
                   pending, tx_start, since, result>>

\* Variant of the failure: a failure at the commit reaches the caller after
\* the transaction has been made durable.
PushFailAfterCommit(r) ==
    /\ pc[r] = "push_loop"
    /\ pc' = [pc EXCEPT ![r] = "failed"]
    /\ resp' = [resp EXCEPT ![r] = Raised("OperationalError")]
    /\ tasks' = IF i[r] > Len(data[r]) /\ ~IntegrityError(r) THEN Flushed(r) ELSE tasks
    /\ UNCHANGED <<now, started, current_user, data, i, conflicts,
                   identity_map, pending, tx_start, since, result>>

\* The store fails under the request (a statement or the commit raises):
\* get_db's except branch rolls back and the error propagates.
PushFail(r) ==
    /\ pc[r] = "push_loop"
    /\ pc' = [pc EXCEPT ![r] = "failed"]
    /\ resp' = [resp EXCEPT ![r] = Raised("OperationalError")]
    /\ UNCHANGED <<tasks, now, started, current_user, data, i, conflicts,
                   identity_map, pending, tx_start, since, result>>

\* Variant of the return: server_time taken when the transaction began.
PushReturnAtStart(r) ==
    /\ pc[r] = "push_return"
    /\ resp' = [resp EXCEPT ![r] = [kind |-> "push",
                                    success |-> TRUE,
                                    conflicts |-> conflicts[r],
                                    server_time |-> tx_start[r]]]
    /\ pc' = [pc EXCEPT ![r] = "done"]
    /\ UNCHANGED <<tasks, now, started, current_user, data, i, conflicts,
                   identity_map, pending, tx_start, since, result>>

\* return SyncPushResponse(success=True, conflicts=conflicts, server_time=utcnow())
PushReturn(r) ==
    /\ pc[r] = "push_return"
    /\ resp' = [resp EXCEPT ![r] = [kind |-> "push",
                                    success |-> TRUE,
                                    conflicts |-> conflicts[r],
                                    server_time |-> now]]
    /\ pc' = [pc EXCEPT ![r] = "done"]
    /\ UNCHANGED <<tasks, now, started, current_user, data, i, conflicts,
                   identity_map, pending, tx_start, since, result>>

\* ------------------------------------------------------------ pull_changes
\* GET /pull arrives for principal u with query parameter since = s.
StartPull(r, u, s) ==
    /\ CanStart(r)
    /\ started' = started + Load(0)
    /\ pc' = [pc EXCEPT ![r] = "pull_query"]
    /\ Fresh(r, u, <<>>, s)
    /\ UNCHANGED <<tasks, now>>

\* Variant of the query: deleted rows left out.
PullMatchesLive(user, s) ==
    {id \in DOMAIN tasks :
        /\ tasks[id].user_id = user
        /\ ~tasks[id].is_deleted
        /\ (s # NoTime => tasks[id].modified_at > s)}

\* Variant of the query: the cursor compared with >= instead of >.
PullMatchesFromSince(user, s) ==
    {id \in DOMAIN tasks :
        /\ tasks[id].user_id = user
        /\ (s # NoTime => tasks[id].modified_at >= s)}

\* The rows of the query: Task.user_id == user, and Task.modified_at > since
\* when since is given.
PullMatches(user, s) ==
    {id \in DOMAIN tasks :
        /\ tasks[id].user_id = user
        /\ (s # NoTime => tasks[id].modified_at > s)}

\* Variant of the order: modified_at ascending.
OrderByModifiedAsc(S) ==
    {o \in [1..Cardinality(S) -> S] :
        /\ \A j, k \in 1..Cardinality(S) : j # k => o[j] # o[k]
        /\ \A j, k \in 1..Cardinality(S) :
              j < k => tasks[o[j]].modified_at <= tasks[o[k]].modified_at}

\* order_by(Task.modified_at.desc()): the orders the database may return the
\* rows in (rows with equal modified_at come in any order).
OrderByModifiedDesc(S) ==
    {o \in [1..Cardinality(S) -> S] :
        /\ \A j, k \in 1..Cardinality(S) : j # k => o[j] # o[k]
        /\ \A j, k \in 1..Cardinality(S) :
              j < k => tasks[o[j]].modified_at >= tasks[o[k]].modified_at}

\* Variant of the query: the deleted rows it returns are removed from the table.
PullQueryPurging(r) ==
    /\ pc[r] = "pull_query"
    /\ \E o \in OrderByModifiedDesc(PullMatches(current_user[r], since[r])) :
          /\ result' = [result EXCEPT ![r] = [k \in 1..Len(o) |-> tasks[o[k]]]]
          /\ tasks' = [id \in {x \in DOMAIN tasks :
                                  ~(tasks[x].is_deleted /\ \E k \in 1..Len(o) : o[k] = x)}
                          |-> tasks[id]]
    /\ pc' = [pc EXCEPT ![r] = "pull_return"]
    /\ UNCHANGED <<now, started, current_user, data, i, conflicts,
                   identity_map, pending, tx_start, since, resp>>

\* result = await db.execute(query.order_by(...)); tasks = result.scalars().all()
PullQuery(r) ==
    /\ pc[r] = "pull_query"
    /\ \E o \in OrderByModifiedDesc(PullMatches(current_user[r], since[r])) :
          result' = [result EXCEPT ![r] = [k \in 1..Len(o) |-> tasks[o[k]]]]
    /\ pc' = [pc EXCEPT ![r] = "pull_return"]
    /\ UNCHANGED <<tasks, now, started, current_user, data, i, conflicts,
                   identity_map, pending, tx_start, since, resp>>

\* TaskSync(id=task.id, ..., version=task.version)
ToTaskSync(task) ==
    [id |-> task.id,
     title |-> task.title,
     is_deleted |-> task.is_deleted,
     version |-> task.version]

\* return SyncPullResponse(tasks=task_syncs, server_time=datetime.utcnow())
PullReturn(r) ==
    /\ pc[r] = "pull_return"
    /\ resp' = [resp EXCEPT ![r] = [kind |-> "pull",
                                    tasks |-> [k \in 1..Len(result[r]) |->
                                                  ToTaskSync(result[r][k])],
                                    server_time |-> now]]
    /\ pc' = [pc EXCEPT ![r] = "done"]
    /\ UNCHANGED <<tasks, now, started, current_user, data, i, conflicts,
                   identity_map, pending, tx_start, since, result>>

\* ------------------------------------------------------------- sync_status
\* GET /status arrives for principal u.
StartStatus(r, u) ==
    /\ CanStart(r)
    /\ started' = started + Load(0)
    /\ pc' = [pc EXCEPT ![r] = "status_count"]
    /\ Fresh(r, u, <<>>, NoTime)
    /\ UNCHANGED <<tasks, now>>

\* total_tasks: the number of the user's rows with is_deleted == False.
TotalTasks(user) ==
    Cardinality({id \in DOMAIN tasks : tasks[id].user_id = user /\ ~tasks[id].is_deleted})

\* last_task.modified_at if last_task else None: the user's rows ordered by
\* modified_at descending, limit 1.
LastModifiedAt(user) ==
    LET mine == {id \in DOMAIN tasks : tasks[id].user_id = user}
    IN  IF mine = {} THEN NoTime
        ELSE LET last == CHOOSE id \in mine :
                            \A other \in mine : tasks[id].modified_at >= tasks[other].modified_at
             IN  tasks[last].modified_at

\* The first query of sync_status.
StatusCount(r) ==
    /\ pc[r] = "status_count"
    /\ result' = [result EXCEPT ![r] = <<TotalTasks(current_user[r])>>]
    /\ pc' = [pc EXCEPT ![r] = "status_last"]
    /\ UNCHANGED <<tasks, now, started, current_user, data, i, conflicts,
                   identity_map, pending, tx_start, since, resp>>

\* The second query of sync_status and its return.
StatusLast(r) ==
    /\ pc[r] = "status_last"
    /\ resp' = [resp EXCEPT ![r] = [kind |-> "status",
                                    user_id |-> current_user[r],
                                    total_tasks |-> result[r][1],
                                    last_modified_at |-> LastModifiedAt(current_user[r]),
                                    server_time |-> now]]
    /\ pc' = [pc EXCEPT ![r] = "done"]
    /\ UNCHANGED <<tasks, now, started, current_user, data, i, conflicts,
                   identity_map, pending, tx_start, since, result>>

\* Requests served one after the other: a request is accepted when no other
\* is in flight.
Next ==
    \/ Tick
    \/ /\ Quiet
       /\ Room(MaxLoad, 1)
       /\ \E r \in Reqs, u \in Users, batch \in SyncPushRequest :
             Room(MaxLoad, Len(batch)) /\ StartPush(r, u, batch)
    \/ \E r \in Reqs : PushRecord(r)
    \/ \E r \in Reqs : PushCommit(r)
    \/ \E r \in Reqs : PushFail(r)
    \/ \E r \in Reqs : PushReturn(r)
    \/ /\ Quiet
       /\ Room(MaxLoad, 1)
       /\ \E r \in Reqs, u \in Users, s \in {NoTime} \cup Times : StartPull(r, u, s)
    \/ \E r \in Reqs : PullQuery(r)
    \/ \E r \in Reqs : PullReturn(r)
    \/ /\ Quiet
       /\ Room(MaxLoad, 1)
       /\ \E r \in Reqs, u \in Users : StartStatus(r, u)
    \/ \E r \in Reqs : StatusCount(r)
    \/ \E r \in Reqs : StatusLast(r)

Spec == Init /\ [][Next]_vars

\* Requests served concurrently (each in its own task with its own session),
\* explored for pushes of at most one record on the ids of SharedIds.
SharedIds == {"A"}
SinglePush == SeqsUpTo({t \in TaskSync : t.id \in SharedIds}, 1)

NextConcurrent ==
    \/ Tick
    \/ /\ Room(MaxOverlapLoad, 1)
       /\ \E r \in Reqs, u \in Users, batch \in SinglePush : StartPush(r, u, batch)
    \/ \E r \in Reqs : PushRecord(r)
    \/ \E r \in Reqs : PushCommit(r)
    \/ \E r \in Reqs : PushFail(r)
    \/ \E r \in Reqs : PushReturn(r)
    \/ /\ Room(MaxOverlapLoad, 1)
       /\ \E r \in Reqs, u \in Users, s \in {NoTime} \cup Times : StartPull(r, u, s)
    \/ \E r \in Reqs : PullQuery(r)
    \/ \E r \in Reqs : PullReturn(r)
    \/ /\ Room(MaxOverlapLoad, 1)
       /\ \E r \in Reqs, u \in Users : StartStatus(r, u)
    \/ \E r \in Reqs : StatusCount(r)
    \/ \E r \in Reqs : StatusLast(r)

SpecConcurrent == Init /\ [][NextConcurrent]_vars

\* Pushes only, served concurrently, for longer histories on one record.
NextRace ==
    \/ Tick
    \/ /\ Room(MaxRaceLoad, 1)
       /\ \E r \in Reqs, u \in Users, batch \in SinglePush \ {<<>>} :
             StartPush(r, u, batch)
    \/ \E r \in Reqs : PushRecord(r)
    \/ \E r \in Reqs : PushCommit(r)
    \/ \E r \in Reqs : PushFail(r)
    \/ \E r \in Reqs : PushReturn(r)

SpecRace == Init /\ [][NextRace]_vars

\* The caller of request q, which ended with a store failure, sends the same
\* body again; the new request is served in slot r.
RetryPush(q, r) ==
    /\ pc[q] = "failed"
    /\ resp[q] = Raised("OperationalError")
    /\ r # q
    /\ pc[r] \in {"idle", "failed"}
    /\ pc' = [pc EXCEPT ![r] = "push_loop"]
    /\ Fresh(r, current_user[q], data[q], NoTime)
    /\ UNCHANGED <<tasks, now, started>>

\* No request has ended with a store failure.
NoFailure == \A q \in Reqs : resp[q] # Raised("OperationalError")

\* Pushes served one after the other; once a push has ended with a store
\* failure, only retries of it follow.
NextRetry ==
    \/ Tick
    \/ /\ Quiet
       /\ NoFailure
       /\ Room(MaxRetryLoad, 1)
       /\ \E r \in Reqs, u \in Users, batch \in SyncPushRequest :
             Room(MaxRetryLoad, Len(batch)) /\ StartPush(r, u, batch)
    \/ \E r \in Reqs : PushRecord(r)
    \/ \E r \in Reqs : PushCommit(r)
    \/ \E r \in Reqs : PushFail(r)
    \/ \E r \in Reqs : PushReturn(r)
    \/ Quiet /\ \E q, r \in Reqs : RetryPush(q, r)

SpecRetry == Init /\ [][NextRetry]_vars

\* ======================================================================
\* Properties
\* ======================================================================
\* The record the loop of request r is about to handle.
Incoming(r) == data[r][i[r]]

\* This step is one iteration of the loop of request r.
RecordStep(r) ==
    pc[r] = "push_loop" /\ i[r] <= Len(data[r]) /\ i'[r] = i[r] + 1

\* This step is the db.commit() of request r, the store being available.
CommitStep(r) ==
    /\ pc[r] = "push_loop" /\ i[r] > Len(data[r]) /\ pc'[r] # "push_loop"
    /\ resp'[r] # Raised("OperationalError")

\* This step is the db.commit() of request r, and it succeeds.
Committed(r) ==
    pc[r] = "push_loop" /\ pc'[r] = "push_return"

\* Request r is a push that has returned its response.
PushDone(r) ==
    pc[r] = "done" /\ resp[r].kind = "push"

\* C1: for every owner, id and version v, a push of a record the store does
\* not hold for (id, owner) never reports it as a conflict and creates it:
\* once the push has committed, the store holds (id, owner) at version v.
C1_FirstPushCreates ==
    [][\A r \in Reqs :
        /\ (RecordStep(r) /\ ~Found(r, Incoming(r).id)) => conflicts'[r] = conflicts[r]
        /\ CommitStep(r) =>
              \A k \in 1..Len(pending[r]) :
                 LET new_task == pending[r][k]
                 IN  /\ new_task.id \in DOMAIN tasks'
                     /\ tasks'[new_task.id].user_id = current_user[r]
                     /\ tasks'[new_task.id].version = new_task.version]_vars

\* C2: a record whose current version is <= the incoming version (equal
\* included) is applied: it is not reported as a conflict, its version
\* becomes incoming.version + 1, and that is the version the commit stores.
C2_NotNewerIsApplied ==
    [][\A r \in Reqs :
        /\ (/\ RecordStep(r)
            /\ Found(r, Incoming(r).id)
            /\ ExistingTask(r, Incoming(r).id).version <= Incoming(r).version) =>
              /\ conflicts'[r] = conflicts[r]
              /\ Incoming(r).id \in DOMAIN identity_map'[r]
              /\ identity_map'[r][Incoming(r).id].cur.version = Incoming(r).version + 1
        /\ Committed(r) =>
              \A id \in DirtyIds(r) : tasks'[id].version = identity_map[r][id].cur.version]_vars

\* A push of one record carrying exactly the stored version was applied.
C2_Witness ==
    \E r \in Reqs :
        /\ PushDone(r)
        /\ Len(data[r]) = 1
        /\ resp[r].conflicts = <<>>
        /\ data[r][1].id \in DirtyIds(r)
        /\ identity_map[r][data[r][1].id].orig.version = data[r][1].version
        /\ tasks[data[r][1].id].version = data[r][1].version + 1

\* C3: a record whose current version is > the incoming version is a
\* conflict: its id is appended to the conflict list, which the response
\* carries, and the stored record and the session's copy of it stay as they
\* were (the commit writes only the records that were applied).
C3_NewerIsConflict ==
    [][\A r \in Reqs :
        /\ (/\ RecordStep(r)
            /\ Found(r, Incoming(r).id)
            /\ ExistingTask(r, Incoming(r).id).version > Incoming(r).version) =>
              /\ conflicts'[r] = Append(conflicts[r], Incoming(r).id)
              /\ tasks' = tasks
              /\ pending'[r] = pending[r]
              /\ identity_map'[r][Incoming(r).id].cur = ExistingTask(r, Incoming(r).id)
              /\ identity_map'[r][Incoming(r).id].orig = LoadedTask(r, Incoming(r).id)
        /\ Committed(r) =>
              \A id \in DOMAIN tasks \ DirtyIds(r) : tasks'[id] = tasks[id]
        /\ (pc[r] = "push_return" /\ pc'[r] = "done") =>
              resp'[r].conflicts = conflicts[r]]_vars

\* A push of one record older than the stored one returned it as a conflict,
\* and the store still holds the row the request had loaded.
C3_Witness ==
    \E r \in Reqs :
        /\ PushDone(r)
        /\ Len(data[r]) = 1
        /\ resp[r].conflicts = <<data[r][1].id>>
        /\ tasks[data[r][1].id].version > data[r][1].version
        /\ tasks[data[r][1].id] = identity_map[r][data[r][1].id].orig

\* C4 as stated: every committed update of an existing record leaves its
\* stored version at exactly the previous stored version + 1.
C4_BumpsByExactlyOne ==
    [][\A r \in Reqs :
        Committed(r) =>
           \A id \in DirtyIds(r) : tasks'[id].version = tasks[id].version + 1]_vars

\* C4 amended: every accepted update sets the version to incoming.version + 1,
\* which is strictly greater than the version the request found, and exceeds
\* it by exactly 1 only when the incoming version equals it; the commit
\* stores that version, strictly greater than the one the request loaded.
C4_BumpsPastIncoming ==
    [][\A r \in Reqs :
        /\ (/\ RecordStep(r)
            /\ Found(r, Incoming(r).id)
            /\ conflicts'[r] = conflicts[r]) =>
              LET old == ExistingTask(r, Incoming(r).id).version
                  new == identity_map'[r][Incoming(r).id].cur.version
              IN  /\ new = Incoming(r).version + 1
                  /\ new > old
                  /\ (new = old + 1) <=> (Incoming(r).version = old)
        /\ Committed(r) =>
              \A id \in DirtyIds(r) :
                 /\ tasks'[id].version = identity_map[r][id].cur.version
                 /\ tasks'[id].version > identity_map[r][id].orig.version]_vars

\* A push was committed whose update moved the version by more than 1.
C4_Witness ==
    \E r \in Reqs :
        /\ PushDone(r)
        /\ \E id \in DirtyIds(r) :
              /\ identity_map[r][id].cur.version > identity_map[r][id].orig.version + 1
              /\ tasks[id].version = identity_map[r][id].cur.version

\* C5: the committed version of a record never decreases, whatever the
\* interleaving of the pushes, and is strictly larger after every committed
\* update of it.
C5_VersionNeverDecreases ==
    [][\A id \in DOMAIN tasks :
        /\ id \in DOMAIN tasks'
        /\ tasks'[id].version >= tasks[id].version
        /\ \A r \in Reqs :
              (Committed(r) /\ id \in DirtyIds(r)) => tasks'[id].version > tasks[id].version]_vars

\* Request r is a push whose transaction has committed.
Accepted(r) == pc[r] \in {"push_return", "done"} /\ Len(data[r]) > 0

\* C6: two pushes of the same owner never both commit an update of the same
\* record decided against the same stored version: the outcome of two
\* concurrent pushes is that of the two run one after the other, where the
\* second finds the version the first has stored.
C6_NoDoubleAccept ==
    \A r1, r2 \in Reqs :
        (r1 # r2 /\ Accepted(r1) /\ Accepted(r2) /\ current_user[r1] = current_user[r2]) =>
            \A id \in DirtyIds(r1) \cap DirtyIds(r2) :
                identity_map[r1][id].orig.version # identity_map[r2][id].orig.version

\* Every accepted mutation of request r is in the table after this step.
AllStored(r) ==
    /\ \A k \in 1..Len(pending[r]) :
          /\ pending[r][k].id \in DOMAIN tasks'
          /\ tasks'[pending[r][k].id].user_id = current_user[r]
          /\ ToTaskSync(tasks'[pending[r][k].id]) = ToTaskSync(pending[r][k])
    /\ \A id \in DirtyIds(r) : tasks'[id] = identity_map[r][id].cur

\* C7: a push batch is all-or-nothing: the table changes only in the step
\* that commits a request, which stores every accepted mutation of the batch
\* (creates and updates); the loop itself writes nothing, and a request that
\* fails, at the commit or before, leaves the table as it was.
C7_AllOrNothing ==
    [][/\ tasks' # tasks => \E r \in Reqs : Committed(r)
       /\ \A r \in Reqs :
            /\ Committed(r) => AllStored(r)
            /\ (pc[r] = "push_loop" /\ pc'[r] = "failed") => tasks' = tasks]_vars

\* A batch with an accepted update failed at the commit, and the row of the
\* update is still the one the request had loaded.
C7_Witness ==
    \E r \in Reqs :
        /\ pc[r] = "failed"
        /\ resp[r] = Raised("IntegrityError")
        /\ \E id \in DirtyIds(r) : tasks[id] = identity_map[r][id].orig

\* C8: a batch in which some records conflict still succeeds: the conflict
\* list gets exactly the ids found with a version greater than the incoming
\* one, in batch order; the commit goes through and stores every other
\* record of the batch; the response carries success = true and that list.
C8_ConflictsAreData ==
    [][\A r \in Reqs :
        /\ RecordStep(r) =>
              conflicts'[r] =
                 IF /\ Found(r, Incoming(r).id)
                    /\ ExistingTask(r, Incoming(r).id).version > Incoming(r).version
                 THEN Append(conflicts[r], Incoming(r).id)
                 ELSE conflicts[r]
        /\ (CommitStep(r) /\ conflicts[r] # <<>>) => (Committed(r) /\ AllStored(r))
        /\ (pc[r] = "push_return" /\ pc'[r] = "done") =>
              (resp'[r].success /\ resp'[r].conflicts = conflicts[r])]_vars

\* C9: a push by one owner of an id stored for another owner succeeds and
\* creates a record with that id for the caller at the incoming version,
\* leaving the other owner's record as it is.
C9_ForeignIdIsCreated ==
    [][\A r \in Reqs :
        CommitStep(r) =>
           \A k \in 1..Len(pending[r]) :
              LET id == pending[r][k].id
              IN  (id \in DOMAIN tasks /\ tasks[id].user_id # current_user[r]) =>
                     /\ Committed(r)
                     /\ \E row \in {tasks'[x] : x \in DOMAIN tasks'} :
                           /\ row.id = id
                           /\ row.user_id = current_user[r]
                           /\ row.version = pending[r][k].version
                     /\ \E row \in {tasks'[x] : x \in DOMAIN tasks'} : row = tasks[id]]_vars

\* C10: a row is changed only by the commit of a push of its owner, and its
\* owner never changes: no push, pull or status request of one principal
\* changes a row of another.
C10_OwnerIsolation ==
    [][\A id \in DOMAIN tasks :
        /\ id \in DOMAIN tasks'
        /\ tasks'[id].user_id = tasks[id].user_id
        /\ tasks'[id] # tasks[id] =>
              \E r \in Reqs : Committed(r) /\ current_user[r] = tasks[id].user_id]_vars

\* A principal has pushed an id that is stored for another principal, and
\* the request is over.
C10_Witness ==
    \E r \in Reqs :
        /\ pc[r] \in {"done", "failed"}
        /\ Len(data[r]) = 1
        /\ data[r][1].id \in DOMAIN tasks
        /\ tasks[data[r][1].id].user_id # current_user[r]
        /\ resp[r] # Raised("OperationalError")

\* Request r is a pull that has returned its response.
PullDone(r) ==
    pc[r] = "done" /\ resp[r].kind = "pull"

\* The ids of the records in the response of pull r.
Delivered(r) ==
    {resp[r].tasks[k].id : k \in 1..Len(resp[r].tasks)}

\* C11: a record accepted by a push with modified_at = t is in every later
\* pull of its owner with since < t and in none with since >= t (the
\* comparison is strictly greater-than); a pull without since has it.
C11_PullRoundTrip ==
    \A r \in Reqs :
        PullDone(r) =>
           \A id \in DOMAIN tasks :
              tasks[id].user_id = current_user[r] =>
                 /\ (since[r] = NoTime \/ since[r] < tasks[id].modified_at) =>
                        id \in Delivered(r)
                 /\ (since[r] # NoTime /\ since[r] >= tasks[id].modified_at) =>
                        id \notin Delivered(r)

\* A pull with a cursor has returned one record of the caller modified after
\* the cursor and left out one modified exactly at the cursor.
C11_Witness ==
    \E r \in Reqs :
        /\ PullDone(r)
        /\ since[r] # NoTime
        /\ \E a, b \in DOMAIN tasks :
              /\ tasks[a].user_id = current_user[r]
              /\ tasks[b].user_id = current_user[r]
              /\ tasks[a].modified_at > since[r]
              /\ tasks[b].modified_at = since[r]
              /\ a \in Delivered(r)
              /\ b \notin Delivered(r)

\* C12: when a push returns, every record accepted at or before that time
\* (the ones this push created or updated included) is stored with a
\* modified_at <= the server_time of the response, so that a pull with since
\* equal to that server_time leaves all of them out.
C12_ModifiedAtNotAfterServerTime ==
    [][\A r \in Reqs :
        (pc[r] = "push_return" /\ pc'[r] = "done") =>
           /\ \A id \in DOMAIN tasks :
                 tasks[id].modified_at <= resp'[r].server_time
           /\ \A u \in Users : PullMatches(u, resp'[r].server_time) = {}]_vars

\* A push has returned after updating a record, the record is stored as the
\* push wrote it, and the clock moved between the update and the response.
C12_Witness ==
    \E r \in Reqs :
        /\ PushDone(r)
        /\ DirtyIds(r) # {}
        /\ \A id \in DirtyIds(r) :
              /\ tasks[id] = identity_map[r][id].cur
              /\ tasks[id].modified_at < resp[r].server_time

\* C13: the modified_at of a record never decreases, whatever the sequence
\* and interleaving of accepted pushes.
C13_ModifiedAtNeverDecreases ==
    [][\A id \in DOMAIN tasks :
        id \in DOMAIN tasks' => tasks'[id].modified_at >= tasks[id].modified_at]_vars

\* C14: once a push of (id, v) by an owner has been rejected as a conflict,
\* every later push of the same id with the same v by that owner is rejected
\* too, whatever pushes happen in between.
C14_ConflictIsStable ==
    [][\A r, q \in Reqs :
        (/\ q # r
         /\ PushDone(q)
         /\ Len(data[q]) = 1
         /\ resp[q].conflicts = <<data[q][1].id>>
         /\ RecordStep(r)
         /\ current_user[r] = current_user[q]
         /\ Incoming(r).id = data[q][1].id
         /\ Incoming(r).version = data[q][1].version) =>
            conflicts'[r] = Append(conflicts[r], Incoming(r).id)]_vars

\* C15: a pull without since returns exactly the records the store holds for
\* the caller, deleted ones included, each once and with its stored title,
\* flag and version, and no record of another owner.
C15_FullPullIsOwnersRecords ==
    \A r \in Reqs :
        (PullDone(r) /\ since[r] = NoTime) =>
           LET mine == {id \in DOMAIN tasks : tasks[id].user_id = current_user[r]}
           IN  /\ Len(resp[r].tasks) = Cardinality(mine)
               /\ \A id \in mine :
                     \E k \in 1..Len(resp[r].tasks) :
                        resp[r].tasks[k] = [id |-> id,
                                            title |-> tasks[id].title,
                                            is_deleted |-> tasks[id].is_deleted,
                                            version |-> tasks[id].version]

\* A pull without since has returned a deleted record of the caller, updated
\* since its creation, and nothing else, while the store also holds a record
\* of another owner.
C15_Witness ==
    \E r \in Reqs :
        /\ PullDone(r)
        /\ since[r] = NoTime
        /\ Len(resp[r].tasks) = 1
        /\ resp[r].tasks[1].is_deleted
        /\ resp[r].tasks[1].version > 0
        /\ \E id \in DOMAIN tasks : tasks[id].user_id # current_user[r]

\* C16: the records of a pull response come in descending modified_at order:
\* of two adjacent records the earlier one has a modified_at >= the later
\* one's (result holds the rows the response was built from, in its order).
C16_PullIsNewestFirst ==
    \A r \in Reqs :
        PullDone(r) =>
           /\ Len(resp[r].tasks) = Len(result[r])
           /\ \A k \in 1..Len(result[r]) :
                 /\ resp[r].tasks[k].id = result[r][k].id
                 /\ result[r][k] = tasks[result[r][k].id]
           /\ \A k \in 1..(Len(result[r]) - 1) :
                 result[r][k].modified_at >= result[r][k + 1].modified_at

\* A pull has returned two records with different modified_at.
C16_Witness ==
    \E r \in Reqs :
        /\ PullDone(r)
        /\ Len(resp[r].tasks) = 2
        /\ result[r][1].modified_at > result[r][2].modified_at

\* Request q is a push that failed at its commit on a store failure, and r
\* is a retry of it that has returned its response.
RetriedAfterCommitFailure(q, r) ==
    /\ q # r
    /\ pc[q] = "failed"
    /\ resp[q] = Raised("OperationalError")
    /\ i[q] > Len(data[q])
    /\ PushDone(r)
    /\ current_user[r] = current_user[q]
    /\ data[r] = data[q]

\* Row a with the modified_at of row b.
StampedAs(a, b) == [a EXCEPT !.modified_at = b.modified_at]

C18_ReadsLeaveStoreUnchanged ==
    [][\A r \in Reqs :
        (/\ pc'[r] # pc[r]
         /\ \/ pc[r] \in {"pull_query", "pull_return", "status_count", "status_last"}
            \/ pc'[r] \in {"pull_query", "status_count"}) =>
           tasks' = tasks]_vars

\* A pull that returned a record and a status request that counted one have
\* both been answered, and the record is stored as the pull returned it.
C18_Witness ==
    \E r, q \in Reqs :
        /\ PullDone(r)
        /\ Len(resp[r].tasks) = 1
        /\ result[r][1] = tasks[result[r][1].id]
        /\ pc[q] = "done"
        /\ resp[q].kind = "status"
        /\ resp[q].total_tasks = 1

\* C19: a record is never removed from the store; a push with is_deleted =
\* true that is applied leaves the record stored with the flag set, and a
\* pull delivers the deleted records its filter matches like any other.
C19_DeleteIsATombstone ==
    [][/\ \A id \in DOMAIN tasks : id \in DOMAIN tasks'
       /\ \A r \in Reqs :
             /\ Committed(r) =>
                   /\ \A id \in DirtyIds(r) :
                         identity_map[r][id].cur.is_deleted =>
                            /\ id \in DOMAIN tasks'
                            /\ tasks'[id].is_deleted
                            /\ tasks'[id].version = identity_map[r][id].cur.version
                   /\ \A k \in 1..Len(pending[r]) :
                         pending[r][k].is_deleted =>
                            /\ pending[r][k].id \in DOMAIN tasks'
                            /\ tasks'[pending[r][k].id].is_deleted
             /\ (pc[r] = "pull_query" /\ pc'[r] = "pull_return") =>
                   \A id \in DOMAIN tasks :
                      (/\ tasks[id].is_deleted
                       /\ tasks[id].user_id = current_user[r]
                       /\ (since[r] = NoTime \/ tasks[id].modified_at > since[r])) =>
                         \E k \in 1..Len(result'[r]) : result'[r][k] = tasks[id]]_vars

\* A record was created, then deleted by a push, and a later pull with a
\* cursor has delivered it with the flag set.
C19_Witness ==
    \E r \in Reqs :
        /\ PullDone(r)
        /\ since[r] # NoTime
        /\ \E k \in 1..Len(resp[r].tasks) :
              /\ resp[r].tasks[k].is_deleted
              /\ resp[r].tasks[k].version > 0
              /\ tasks[resp[r].tasks[k].id] = result[r][k]

\* C20: a client that uses the server_time of each pull as the since of its
\* next one misses no committed mutation. Stated on one pull of the chain:
\* once the pull has answered with cursor server_time, every row the store
\* holds for the caller was delivered by that pull as it is now, or lies at or
\* before the cursor the pull was asked with (the part of the chain before
\* it), or has a modified_at after server_time, where the next pull finds it.
C20_CursorChainMissesNothing ==
    \A r \in Reqs :
        PullDone(r) =>
           \A id \in DOMAIN tasks :
              tasks[id].user_id = current_user[r] =>
                 \/ \E k \in 1..Len(result[r]) : result[r][k] = tasks[id]
                 \/ since[r] # NoTime /\ tasks[id].modified_at <= since[r]
                 \/ tasks[id].modified_at > resp[r].server_time

\* The batch of request r is the same id twice, both times with version v.
SameIdTwice(r) ==
    /\ Len(data[r]) = 2
    /\ data[r][1].id = data[r][2].id
    /\ data[r][1].version = data[r][2].version

\* C21: the second occurrence of an id in a batch is decided against the
\* state the first one produced, and the batch commits: an id the store does
\* not hold, pushed twice with version v, is created at v and then applied
\* to v + 1 without a conflict; an id stored for the caller at version v,
\* pushed twice with v, is applied to v + 1 and then reported as a conflict.
C21_SecondOccurrenceSeesFirst ==
    [][\A r \in Reqs :
        (CommitStep(r) /\ SameIdTwice(r)) =>
           LET id == data[r][1].id
               v == data[r][1].version
           IN  /\ id \notin DOMAIN tasks =>
                     /\ Committed(r)
                     /\ conflicts[r] = <<>>
                     /\ id \in DOMAIN tasks'
                     /\ tasks'[id].user_id = current_user[r]
                     /\ tasks'[id].version = v + 1
               /\ (/\ id \in DOMAIN tasks
                   /\ tasks[id].user_id = current_user[r]
                   /\ tasks[id].version = v) =>
                     /\ Committed(r)
                     /\ conflicts[r] = <<id>>
                     /\ tasks'[id].version = v + 1]_vars

====
